---- MODULE Spec2Model ----
(***************************************************************************)
(* Sentinel plant-disease detection backend: the model registry of         *)
(* utils/modelInitialization.js (lazy load, retry, timeout, warmup, cache, *)
(* dispose) and the dual-model request handlers of                         *)
(* controllers/detectionController.js.                                     *)
(*                                                                         *)
(* Every `await` of the JavaScript source is a point where the event loop  *)
(* may run another callback, so an async function is one action per        *)
(* stretch of code between two awaits.                                     *)
(***************************************************************************)
EXTENDS Integers, Sequences, FiniteSets, Bags, TLC

(* ---------------------------------------------------------------------- *)
(* Bounds of the model                                                     *)
(* ---------------------------------------------------------------------- *)

\* number of getModel invocations that may be running, or settled and not
\* yet consumed by their callers, at once
MaxCalls == 2

\* number of GraphModel objects a behaviour may load
MaxHandles == 2

(* ---------------------------------------------------------------------- *)
(* Program constants                                                       *)
(* ---------------------------------------------------------------------- *)

\* MODEL_CONFIG.<name>.retryAttempts
RetryAttempts == 3

\* the side of the square the images are resized to: resize(640, 640, ...)
TargetSize == 640

\* checkImageQuality: minWidth and minHeight
MinWidth == 224

MinHeight == 224

\* the keys of MODEL_CONFIG
Models == {"yolov5", "yolov7"}

\* MODEL_CONFIG: the fields of the configuration the control flow reads
MODEL_CONFIG == [m \in Models |-> [retryAttempts |-> RetryAttempts]]

\* a name that is no key of MODEL_CONFIG
UnknownName == "other"

Names == Models \cup {UnknownName}

NoHandle == 0

NoError == [kind |-> "none", attempt |-> 0]

NoResult == [type |-> "none"]

(* ---------------------------------------------------------------------- *)
(* State                                                                   *)
(* ---------------------------------------------------------------------- *)

VARIABLES
    modelCache,   \* the Map modelCache: model name -> handle, NoHandle = no entry
    handleName,   \* handle h (1..Len) is the GraphModel that a load of handleName[h] produced
    disposed,     \* disposed[h] = number of times handle h's dispose() ran
    firstOk,      \* history: the handle of the first getModel success per name since that name was last cleaned up
    calls,        \* the bag of getModel invocations made and not yet consumed by their callers:
                  \* one record each (position, locals, settled value)
    req,          \* the analyzeImage/analyzeStream invocation being served
    boot,         \* the initializeAllModels invocation
    warmupShape,  \* the arrays MODEL_CONFIG.<name>.warmupShape refers to
    configCopy,   \* the object getModelConfig last returned to its caller
    health        \* the modelsLoaded object of the last healthCheck response

vars == <<modelCache, handleName, disposed, firstOk, calls, req,
          boot, warmupShape, configCopy, health>>

\* the state of the exported API's callers outside the request handlers
api == <<boot, warmupShape, configCopy, health>>

Handles == 1..Len(handleName)

\* the locals of a getModel/loadModelWithRetry invocation that has not started
IdleCall ==
    [pc        |-> "idle",
     modelName |-> UnknownName,
     attempt   |-> 0,          \* the loop variable of loadModelWithRetry
     lastError |-> NoError,
     model     |-> NoHandle,   \* the local `model` of the try block
     access    |-> "none",     \* outcome of fs.access in checkModelFiles
     loads     |-> 0,          \* history, while running or rejected: calls of tf.loadGraphModel made
     fails     |-> 0,          \* history, while running or rejected: attempts that ended in the catch block
     waits     |-> 0,          \* history, while running or rejected: retryDelay timers set
     warm      |-> "none",     \* history: outcome of the warmup inference
     shape     |-> <<>>,       \* the shape warmupModel read for its dummy input, while it runs
     cachedAs  |-> NoHandle,   \* history: modelCache[modelName] right after this invocation's modelCache.set
     settled   |-> 0,          \* history: number of times the returned promise settled
     result    |-> NoResult]

\* JavaScript values a confidence may take: a number, counted in halves
\* (2 is 1.0), or undefined
Number(v) == [type |-> "number", value |-> v]

Undefined == [type |-> "undefined"]

NoPrediction == [disease |-> "none", confidence |-> Undefined, recommendations |-> <<>>]

NoAnalysis ==
    [disease |-> "none", confidence |-> Undefined, recommendations |-> <<>>, model |-> "none"]

\* no image read yet
NoImage == [width |-> 0, height |-> 0, channels |-> 0]

\* the two paths analyzeImage pushes on filesToCleanup
TempFiles == {"upload", "processed"}

\* no cleanupFiles call made
NoCleanup == [pc |-> "none", unlink |-> [f \in TempFiles |-> "none"]]

\* the locals of a request handler that is not running, and no response yet
IdleReq ==
    [pc          |-> "idle",
     kind        |-> "none",      \* "image" = analyzeImage, "stream" = analyzeStream
     registered  |-> FALSE,       \* filesToCleanup holds the upload and its _processed copy
     onDisk      |-> {},          \* the temporary files that exist on disk
     cleanups    |-> 0,           \* history: calls of cleanupFiles(filesToCleanup)
     cleanup     |-> NoCleanup,   \* the cleanupFiles call: its position and each fs.unlink
     image       |-> NoImage,     \* the uploaded image, or the image of the stream frame
     processed   |-> NoImage,     \* the image written to processedFilePath
     tensorShape |-> <<>>,        \* the shape of `tensor`, <<>> while there is none
     normalizeTensors |-> {},     \* the tensors the normalization created and has not disposed
     error       |-> "none",      \* history: the await whose failure reached the catch block
     cacheAtStart |-> [m \in Models |-> NoHandle],  \* history: modelCache when the handler was entered
     liveTensors |-> 0,           \* tensors this request created and has not disposed
     handle      |-> [m \in Models |-> NoHandle],    \* the models Promise.all delivered
     out         |-> [m \in Models |-> "none"],      \* history: outcome of each model's predict
     data        |-> [m \in Models |-> <<>>],       \* yolov5Data / yolov7Data
     classIndex  |-> [m \in Models |-> 0],          \* yolov5ClassIndex / yolov7ClassIndex
     preds       |-> [m \in Models |-> NoPrediction],
     responses   |-> 0,           \* history: number of res.status(..).json(..) calls
     status      |-> 0,           \* HTTP status of the response
     perModel    |-> [m \in Models |-> NoPrediction], \* yolov5Analysis / yolov7Analysis of the body
     analysis    |-> NoAnalysis]  \* the primary result of the body

\* MODEL_CONFIG.<name>.warmupShape as written in the source
WarmupShape == <<1, TargetSize, TargetSize, 3>>

\* initializeAllModels not running
IdleBoot == [pc |-> "idle", settled |-> [m \in Models |-> "none"]]

\* no object returned by getModelConfig (or null returned)
NoCopy == [name |-> "none", retryAttempts |-> 0, warmupShape |-> "none"]

\* no healthCheck response sent
NoHealth ==
    [reported     |-> FALSE,
     modelsLoaded |-> [m \in Models |-> FALSE],  \* the flags of the response body
     loaded       |-> [m \in Models |-> FALSE]]  \* history: modelCache.has(name) at that moment

Init ==
    /\ boot = IdleBoot
    /\ warmupShape = [m \in Models |-> WarmupShape]
    /\ configCopy = NoCopy
    /\ health = NoHealth
    /\ modelCache = [m \in Models |-> NoHandle]
    /\ handleName = <<>>
    /\ disposed = <<>>
    /\ firstOk = [m \in Models |-> NoHandle]
    /\ calls = EmptyBag
    /\ req = IdleReq

(* ---------------------------------------------------------------------- *)
(* Values the promises settle with                                         *)
(* ---------------------------------------------------------------------- *)

HandleResult(h) == [type |-> "handle", handle |-> h]

\* new Error(`Unknown model: ${modelName}`)
UnknownModelError(name) ==
    [type |-> "error", kind |-> "UnknownModel", model |-> name,
     attempts |-> 0, cause |-> NoError]

\* new Error(`${modelName.toUpperCase()} model file not found. ...`)
FilesMissingError(name) ==
    [type |-> "error", kind |-> "FilesMissing", model |-> name,
     attempts |-> 0, cause |-> NoError]

\* new Error(`Failed to load ${NAME} model after ${retryAttempts} attempts: ${lastError.message}`)
LoadFailedError(name, lastError) ==
    [type |-> "error", kind |-> "LoadFailed", model |-> name,
     attempts |-> MODEL_CONFIG[name].retryAttempts, cause |-> lastError]

\* the error caught by the catch block of attempt `attempt`
AttemptError(kind, attempt) == [kind |-> kind, attempt |-> attempt]

(* ---------------------------------------------------------------------- *)
(* ModelRegistry: utils/modelInitialization.js                             *)
(* ---------------------------------------------------------------------- *)

\* the invocations made and not yet consumed
Running == BagToSet(calls)

\* the bag of invocations after invocation k moved on to k2
Moved(k, k2) == (calls (-) SetToBag({k})) (+) SetToBag({k2})

\* a GraphModel object comes into existence: the next unused handle
NewHandle == Len(handleName) + 1

\* the first handle a getModel of `name` resolved with since the last cleanup
NoteFirstOk(name, h) ==
    IF firstOk[name] = NoHandle THEN [firstOk EXCEPT ![name] = h] ELSE firstOk

\* variant: the loop gives up one attempt early
MoreAttempts_OneShort(name, attempt) == attempt + 1 < MODEL_CONFIG[name].retryAttempts

\* the loop test `attempt < config.retryAttempts`: another iteration follows
MoreAttempts(name, attempt) == attempt < MODEL_CONFIG[name].retryAttempts

\* variant: only the first error is kept
NextLastError_KeepFirst(lastError, error) ==
    IF lastError = NoError THEN error ELSE lastError

\* `lastError = error` in the catch block
NextLastError(lastError, error) == error

\* the body of one loop iteration up to `await Promise.race([...])`
StartAttempt(call, attempt) ==
    [call EXCEPT !.pc = "loading", !.attempt = attempt, !.loads = @ + 1]

\* variant: a wait follows every failed attempt, the last one too
WaitBeforeRetry_Always(name, attempt) == TRUE

\* the test `attempt < config.retryAttempts` of the catch block: the
\* retryDelay timer is set and awaited
WaitBeforeRetry(name, attempt) == attempt < MODEL_CONFIG[name].retryAttempts

\* the end of a loop iteration that failed: `attempt++` and the loop test,
\* then the next iteration or the code after the loop
NextIteration(call) ==
    IF MoreAttempts(call.modelName, call.attempt)
    THEN StartAttempt(call, call.attempt + 1)
    ELSE [call EXCEPT !.pc = "rejected", !.settled = @ + 1,
                      !.result = LoadFailedError(call.modelName, call.lastError)]

\* variant: a timeout ends the loop at once
CatchAttempt_TimeoutFatal(call, kind) ==
    LET name == call.modelName
        err  == AttemptError(kind, call.attempt)
        c1   == [call EXCEPT !.lastError = err, !.fails = @ + 1, !.model = NoHandle]
    IN  IF kind # "timeout" /\ MoreAttempts(name, call.attempt)
        THEN [c1 EXCEPT !.pc = "delay", !.waits = @ + 1]
        ELSE [c1 EXCEPT !.pc = "rejected", !.settled = @ + 1,
                        !.result = LoadFailedError(name, err)]

\* the catch block of the loop: the error is kept, then the wait before the
\* next attempt, or straight on to the end of the iteration
CatchAttempt(call, kind) ==
    LET name == call.modelName
        err  == NextLastError(call.lastError, AttemptError(kind, call.attempt))
        c1   == [call EXCEPT !.lastError = err, !.fails = @ + 1, !.model = NoHandle]
    IN  IF WaitBeforeRetry(name, call.attempt)
        THEN [c1 EXCEPT !.pc = "delay", !.waits = @ + 1]
        ELSE NextIteration(c1)

\* variant: a name without cache entry goes straight to the first load attempt
getModelCall_SkipFileCheck(call, name) ==
    IF name \notin Models
    THEN [call EXCEPT !.pc = "rejected", !.modelName = name, !.settled = @ + 1,
                      !.result = UnknownModelError(name)]
    ELSE IF modelCache[name] # NoHandle
    THEN [call EXCEPT !.pc = "resolved", !.modelName = name, !.settled = @ + 1,
                      !.result = HandleResult(modelCache[name])]
    ELSE StartAttempt([call EXCEPT !.modelName = name], 1)

\* getModel up to its first await: validation, cache lookup, and the call of
\* loadModelWithRetry, which runs into checkModelFiles' `await fs.access`.
\* The invocation's record after that stretch
getModelCall(call, name) ==
    IF name \notin Models
    THEN [call EXCEPT !.pc = "rejected", !.modelName = name, !.settled = @ + 1,
                      !.result = UnknownModelError(name)]
    ELSE IF modelCache[name] # NoHandle
    THEN [call EXCEPT !.pc = "resolved", !.modelName = name, !.settled = @ + 1,
                      !.result = HandleResult(modelCache[name])]
    ELSE [call EXCEPT !.pc = "check", !.modelName = name]

\* a caller of the exported API invokes getModel(name)
getModel(name) ==
    /\ BagCardinality(calls) < MaxCalls
    /\ calls' = calls (+) SetToBag({getModelCall(IdleCall, name)})
    /\ UNCHANGED <<modelCache, handleName, disposed, firstOk>>
    /\ UNCHANGED <<req, api>>

\* variant: a missing file does not stop the load
checkModelFiles_IgnoreMissing(accessible) ==
    \E k \in Running :
        /\ k.pc = "check"
        /\ calls' = Moved(k,
               StartAttempt([k EXCEPT !.access = IF accessible THEN "ok" ELSE "missing"], 1))
        /\ UNCHANGED <<modelCache, handleName, disposed, firstOk>>
        /\ UNCHANGED <<req, api>>

\* checkModelFiles after fs.access settled, and the caller's continuation:
\* rethrow when the file is missing, else the first loop iteration
checkModelFiles(accessible) ==
    \E k \in Running :
        /\ k.pc = "check"
        /\ IF accessible
           THEN calls' = Moved(k, StartAttempt([k EXCEPT !.access = "ok"], 1))
           ELSE calls' = Moved(k,
                    [k EXCEPT !.pc = "rejected", !.access = "missing", !.settled = @ + 1,
                              !.result = FilesMissingError(k.modelName)])
        /\ UNCHANGED <<modelCache, handleName, disposed, firstOk>>
        /\ UNCHANGED <<req, api>>

\* Promise.race settled with the loaded model: warmupModel runs up to
\* `await model.predict(dummyInput)`
loadSucceeded ==
    \E k \in Running :
        /\ k.pc = "loading"
        /\ Len(handleName) < MaxHandles
        /\ handleName' = Append(handleName, k.modelName)
        /\ disposed' = Append(disposed, 0)
        /\ calls' = Moved(k, [k EXCEPT !.pc = "warmup", !.model = NewHandle,
                                       !.lastError = NoError,
                                       !.shape = warmupShape[k.modelName]])
        /\ UNCHANGED <<modelCache, firstOk>>
        /\ UNCHANGED <<req, api>>

\* variant: a failed warmup inference is rethrown
warmupModel_Rethrow(ok) == ~ok

\* warmupModel: TRUE when it throws to its caller. Its try/catch logs every
\* failure of the warmup inference and returns normally
warmupModel(ok) == FALSE

\* the continuation after `await warmupModel(...)`: cache the model, return it
warmupDone(ok) ==
    \E k \in Running :
        /\ k.pc = "warmup"
        /\ LET call == [k EXCEPT !.warm = IF ok THEN "ok" ELSE "failed"]
               name == call.modelName
           IN  IF warmupModel(ok)
               THEN /\ calls' = Moved(k, CatchAttempt(call, "throw"))
                    /\ UNCHANGED <<modelCache, firstOk>>
               ELSE /\ modelCache' = [modelCache EXCEPT ![name] = call.model]
                    /\ firstOk' = NoteFirstOk(name, call.model)
                    /\ calls' = Moved(k,
                           [call EXCEPT !.pc = "resolved", !.settled = @ + 1,
                                        !.attempt = 0, !.loads = 0, !.fails = 0, !.waits = 0,
                                        !.shape = <<>>,
                                        !.cachedAs = modelCache'[name],
                                        !.result = HandleResult(call.model)])
        /\ UNCHANGED <<handleName, disposed>>
        /\ UNCHANGED <<req, api>>

\* Promise.race settled with a rejection: tf.loadGraphModel threw, or the
\* timeout fired first
loadFailed(kind) ==
    \E k \in Running :
        /\ k.pc = "loading"
        /\ calls' = Moved(k, CatchAttempt(k, kind))
        /\ UNCHANGED <<modelCache, handleName, disposed, firstOk>>
        /\ UNCHANGED <<req, api>>

\* the retryDelay timer fired: next loop iteration
retryDelayElapsed ==
    \E k \in Running :
        /\ k.pc = "delay"
        /\ calls' = Moved(k, NextIteration(k))
        /\ UNCHANGED <<modelCache, handleName, disposed, firstOk>>
        /\ UNCHANGED <<req, api>>

\* variant: the handle is disposed but its entry stays in the Map
cleanupModels_KeepEntry(name) ==
    /\ IF name \in Models /\ modelCache[name] # NoHandle
       THEN disposed' = [disposed EXCEPT ![modelCache[name]] = @ + 1]
       ELSE UNCHANGED disposed
    /\ UNCHANGED <<modelCache, firstOk, handleName, calls>>
    /\ UNCHANGED <<req, api>>

\* cleanupModels(modelName) with a truthy modelName
cleanupModels(name) ==
    /\ IF name \in Models /\ modelCache[name] # NoHandle
       THEN /\ disposed' = [disposed EXCEPT ![modelCache[name]] = @ + 1]
            /\ modelCache' = [modelCache EXCEPT ![name] = NoHandle]
            /\ firstOk' = [firstOk EXCEPT ![name] = NoHandle]
       ELSE UNCHANGED <<disposed, modelCache, firstOk>>
    /\ UNCHANGED <<handleName, calls>>
    /\ UNCHANGED <<req, api>>

\* cleanupModels() : every entry is disposed, then the Map is cleared
cleanupAllModels ==
    /\ disposed' = [h \in DOMAIN disposed |->
                       IF \E m \in Models : modelCache[m] = h
                       THEN disposed[h] + 1 ELSE disposed[h]]
    /\ modelCache' = [m \in Models |-> NoHandle]
    /\ firstOk' = [m \in Models |-> NoHandle]
    /\ UNCHANGED <<handleName, calls>>
    /\ UNCHANGED <<req, api>>

\* the caller has consumed the settled promise
callReturned ==
    \E k \in Running :
        /\ k.pc \in {"resolved", "rejected"}
        /\ calls' = calls (-) SetToBag({k})
        /\ UNCHANGED <<modelCache, handleName, disposed, firstOk>>
        /\ UNCHANGED <<req, api>>

LoadKinds == {"throw", "timeout"}

Next ==
    \/ \E name \in Names : getModel(name)
    \/ \E accessible \in BOOLEAN : checkModelFiles(accessible)
    \/ loadSucceeded
    \/ \E ok \in BOOLEAN : warmupDone(ok)
    \/ \E kind \in LoadKinds : loadFailed(kind)
    \/ retryDelayElapsed
    \/ callReturned
    \/ \E name \in Names : cleanupModels(name)
    \/ cleanupAllModels

Spec == Init /\ [][Next]_vars

(* ---------------------------------------------------------------------- *)
(* Request handlers: controllers/detectionController.js                    *)
(* ---------------------------------------------------------------------- *)

\* class indices a model's output vector may select; 9 lies outside labelMap
ClassIndexes == {1, 2, 9}

\* the largest value of an output vector, in units of one half: the source
\* takes the vector as the opaque model returns it, so 3 (1.5) is possible
Confidences == {1, 2, 3}

\* an output vector of `len` entries, all 0 but `peak` at the 0-based `index`
Spike(len, index, peak) == [j \in 1..len |-> IF j = index + 1 THEN peak ELSE 0]

\* the keys of labelMap
TableIndexes == 0..8

\* the vectors `await prediction.data()` may deliver: the empty vector, a
\* vector whose largest value occurs twice, one with a negative largest
\* value, one vector per class index and largest value, and one vector per
\* key of labelMap
OutputVectors ==
    {<<>>, <<1, 1>>, <<-1>>}
        \cup {Spike(10, i, p) : i \in ClassIndexes, p \in Confidences}
        \cup {Spike(10, i, 2) : i \in TableIndexes}

\* Math.max(...data) of a vector that is not empty
MathMax(data) ==
    CHOOSE v \in {data[j] : j \in DOMAIN data} : \A j \in DOMAIN data : data[j] <= v

\* variant: the index of the last entry equal to the maximum
IndexOfMax_Last(data) ==
    IF data = <<>>
    THEN -1
    ELSE (CHOOSE j \in DOMAIN data :
              /\ data[j] = MathMax(data)
              /\ \A i \in DOMAIN data : data[i] = MathMax(data) => i <= j) - 1

\* data.indexOf(Math.max(...data)): the 0-based index of the first entry
\* equal to the maximum; Math.max() of no arguments is -Infinity, which no
\* entry equals, and indexOf then returns -1
IndexOfMax(data) ==
    IF data = <<>>
    THEN -1
    ELSE (CHOOSE j \in DOMAIN data :
              /\ data[j] = MathMax(data)
              /\ \A i \in DOMAIN data : data[i] = MathMax(data) => j <= i) - 1

\* data[index]: undefined when the index is no index of the vector
ElementAt(data, index) ==
    IF index + 1 \in DOMAIN data THEN Number(data[index + 1]) ELSE Undefined

\* the JavaScript comparison a > b: false when an operand is undefined
GreaterThan(a, b) ==
    /\ a.type = "number"
    /\ b.type = "number"
    /\ a.value > b.value

\* labelMap
labelMap ==
    [i \in 0..8 |->
        CASE i = 0 -> "Early Blight"
          [] i = 1 -> "Healthy"
          [] i = 2 -> "Late Blight"
          [] i = 3 -> "Leaf Miner"
          [] i = 4 -> "Leaf Mold"
          [] i = 5 -> "Mosaic Virus"
          [] i = 6 -> "Septoria"
          [] i = 7 -> "Spider Mites"
          [] i = 8 -> "Yellow Leaf Curl Virus"]

\* a lookup that maps every index outside the table to the table's last label
DiseaseName_LastLabel(classIndex) ==
    IF classIndex \in DOMAIN labelMap THEN labelMap[classIndex] ELSE labelMap[8]

\* labelMap[classIndex] || "Unknown"
DiseaseName(classIndex) ==
    IF classIndex \in DOMAIN labelMap THEN labelMap[classIndex] ELSE "Unknown"

\* the object `recommendations` of getRecommendations
recommendations ==
    [diseaseName \in {"Early Blight", "Late Blight", "Leaf Miner", "Leaf Mold",
                      "Mosaic Virus", "Septoria", "Spider Mites",
                      "Yellow Leaf Curl Virus", "Healthy"} |->
        CASE diseaseName = "Early Blight" ->
                 <<"Remove infected leaves immediately",
                   "Apply copper-based fungicides",
                   "Maintain proper plant spacing for airflow",
                   "Avoid overhead watering to prevent spore spread">>
          [] diseaseName = "Late Blight" ->
                 <<"Remove and destroy all infected plant material",
                   "Apply fungicides preventively in humid conditions",
                   "Ensure good air circulation around plants",
                   "Use resistant varieties in future plantings">>
          [] diseaseName = "Leaf Miner" ->
                 <<"Remove and destroy affected leaves",
                   "Use yellow sticky traps to monitor and catch adults",
                   "Apply neem oil or insecticidal soap",
                   "Introduce natural predators like parasitic wasps">>
          [] diseaseName = "Leaf Mold" ->
                 <<"Improve air circulation around plants",
                   "Reduce humidity in growing environment",
                   "Apply fungicides at first sign of infection",
                   "Avoid overhead watering to keep foliage dry">>
          [] diseaseName = "Mosaic Virus" ->
                 <<"Remove and destroy infected plants completely",
                   "Control aphids and other insects that spread the virus",
                   "Wash hands and tools after handling infected plants",
                   "Plant resistant varieties in future">>
          [] diseaseName = "Septoria" ->
                 <<"Remove infected leaves to prevent spread",
                   "Apply fungicide at first sign of infection",
                   "Maintain proper plant spacing",
                   "Avoid overhead watering to keep foliage dry">>
          [] diseaseName = "Spider Mites" ->
                 <<"Spray plants with strong stream of water to dislodge mites",
                   "Apply insecticidal soap or neem oil to affected areas",
                   "Increase humidity around plants",
                   "Introduce predatory mites as biological control">>
          [] diseaseName = "Yellow Leaf Curl Virus" ->
                 <<"Remove and destroy all infected plants",
                   "Control whitefly populations with sticky traps",
                   "Use reflective mulches to repel whiteflies",
                   "Plant resistant varieties in future">>
          [] diseaseName = "Healthy" ->
                 <<"Continue regular maintenance",
                   "Monitor plants regularly for early signs of disease",
                   "Maintain proper watering and fertilization schedule",
                   "Ensure good air circulation around plants">>]

\* the list after `||` in getRecommendations
FallbackRecommendations ==
    <<"Consult with a plant pathologist for specific recommendations",
      "Monitor the plant closely for changes in symptoms",
      "Ensure proper growing conditions (light, water, nutrients)">>

\* a lookup that has no list for "Healthy"
getRecommendations_NoHealthy(diseaseName) ==
    IF diseaseName \in DOMAIN recommendations \ {"Healthy"}
    THEN recommendations[diseaseName] ELSE FallbackRecommendations

\* getRecommendations: recommendations[diseaseName] || [the generic list]
getRecommendations(diseaseName) ==
    IF diseaseName \in DOMAIN recommendations
    THEN recommendations[diseaseName] ELSE FallbackRecommendations

\* the getModel invocation of model m that the request awaits
CallOf(m) == CHOOSE k \in Running : k.modelName = m

\* the display names of the `model` field of the primary result
DisplayName(m) == IF m = "yolov5" THEN "YOLOv5" ELSE "YOLOv7"

\* one model's entry of the response body
Prediction(classIndex, confidence) ==
    [disease         |-> DiseaseName(classIndex),
     confidence      |-> confidence,
     recommendations |-> getRecommendations(DiseaseName(classIndex))]

\* a primary result that always carries the recommendations of yolov7
Primary_Yolov7Recommendations(p5, p7) ==
    IF GreaterThan(p5.confidence, p7.confidence)
    THEN [disease |-> p5.disease, confidence |-> p5.confidence,
          recommendations |-> p7.recommendations, model |-> DisplayName("yolov5")]
    ELSE [disease |-> p7.disease, confidence |-> p7.confidence,
          recommendations |-> p7.recommendations, model |-> DisplayName("yolov7")]

\* `analysis: yolov5Confidence > yolov7Confidence ? {...yolov5} : {...yolov7}`
Primary(p5, p7) ==
    IF GreaterThan(p5.confidence, p7.confidence)
    THEN [disease |-> p5.disease, confidence |-> p5.confidence,
          recommendations |-> p5.recommendations, model |-> DisplayName("yolov5")]
    ELSE [disease |-> p7.disease, confidence |-> p7.confidence,
          recommendations |-> p7.recommendations, model |-> DisplayName("yolov7")]

\* a body that keeps only the per-model entry the primary result was taken from
Results_PrimaryOnly(p5, p7) ==
    [perModel |-> [m \in Models |->
                      IF DisplayName(m) = Primary(p5, p7).model
                      THEN (IF m = "yolov5" THEN p5 ELSE p7)
                      ELSE NoPrediction],
     analysis |-> Primary(p5, p7)]

\* the results object: both models' entries and the primary result
Results(p5, p7) ==
    [perModel |-> [m \in Models |-> IF m = "yolov5" THEN p5 ELSE p7],
     analysis |-> Primary(p5, p7)]

\* a return that sends nothing
Respond_Silent(r, status) ==
    [r EXCEPT !.pc = "done", !.status = status]

\* res.status(status).json(...) followed by return
Respond(r, status) ==
    [r EXCEPT !.pc = "done", !.status = status, !.responses = @ + 1]

\* cleanupFiles(filesToCleanup), not awaited: fs.unlink is called for every
\* path and the call is left waiting on Promise.all
StartCleanup(r) ==
    [r EXCEPT !.cleanups = @ + 1,
              !.cleanup = [pc |-> "running", unlink |-> [f \in TempFiles |-> "pending"]]]

\* the catch block: analyzeImage cleans its files up, both answer 500
CatchRequest(r, error) ==
    Respond([(IF r.kind = "image" THEN StartCleanup(r) ELSE r) EXCEPT !.error = error], 500)

\* a catch block that unloads the models: modelManager.cleanupModels()
CatchRegistry_CleanupModels ==
    /\ modelCache' = [m \in Models |-> NoHandle]
    /\ disposed' = [h \in DOMAIN disposed |->
                       IF \E m \in Models : modelCache[m] = h
                       THEN disposed[h] + 1 ELSE disposed[h]]
    /\ UNCHANGED <<handleName, firstOk>>

\* the catch blocks make no call into the model manager
CatchRegistry == UNCHANGED <<modelCache, handleName, disposed, firstOk>>

\* Promise.all([modelManager.getYOLOv5Model(), modelManager.getYOLOv7Model()]):
\* both getModel invocations run up to their first await
GetBothModels ==
    SetToBag({getModelCall(IdleCall, "yolov5"), getModelCall(IdleCall, "yolov7")})

\* no getModel invocation of an earlier request is still running
NoCallPending == calls = EmptyBag

\* the images a client may send: width, height and channels of the source
InputImages ==
    {[width |-> d[1], height |-> d[2], channels |-> c] :
        d \in {<<100, 300>>, <<224, 224>>, <<640, 640>>, <<1280, 720>>},
        c \in {1, 3, 4}}

\* a resize with fit "inside": scaled to fit, keeping the aspect ratio, unpadded
sharpResize_Inside(image, width, height) ==
    IF image.width * height >= image.height * width
    THEN [image EXCEPT !.width = width,
                       !.height = (image.height * width) \div image.width]
    ELSE [image EXCEPT !.width = (image.width * height) \div image.height,
                       !.height = height]

\* sharp(input).resize(width, height, {fit: "contain", background: black}):
\* the image is scaled to fit and padded to exactly width x height
sharpResize(image, width, height) ==
    [image EXCEPT !.width = width, !.height = height]

\* tf.node.decodeImage(buffer, channels): the shape [height, width, channels]
\* of the decoded tensor, whatever the channels of the source
decodeImage(image, channels) == <<image.height, image.width, channels>>

\* tensor.expandDims(0)
expandDims(shape) == <<1>> \o shape

\* preprocessImage: decode, divide by 255 (same shape), add the batch dimension
preprocessImage(image) == expandDims(decodeImage(image, 3))

\* processImageBuffer with its default options: resize, decode, divide, batch
processImageBuffer(image) ==
    expandDims(decodeImage(sharpResize(image, TargetSize, TargetSize), 3))

\* processStreamFrame of a Buffer
processStreamFrame(image) == processImageBuffer(image)

\* analyzeImage up to `await fs.access(filePath)`
analyzeImage(hasFile) ==
    /\ UNCHANGED api
    /\ req.pc = "idle"
    /\ NoCallPending
    /\ IF ~hasFile
       THEN req' = Respond([req EXCEPT !.kind = "image", !.cacheAtStart = modelCache], 400)
       ELSE req' = [req EXCEPT !.kind = "image", !.cacheAtStart = modelCache,
                               !.registered = TRUE, !.pc = "access"]
    /\ UNCHANGED <<modelCache, handleName, disposed, firstOk, calls>>

\* fs.access(filePath) settled
uploadAccessed(ok) ==
    /\ UNCHANGED api
    /\ req.pc = "access"
    /\ IF ok
       THEN req' = [req EXCEPT !.pc = "quality", !.onDisk = {"upload"}]
       ELSE req' = Respond(req, 404)
    /\ UNCHANGED <<modelCache, handleName, disposed, firstOk, calls>>

\* imageProcessor.checkImageQuality(filePath) settled: it passes only an
\* image of at least minWidth x minHeight pixels
qualityChecked(ok, image) ==
    /\ UNCHANGED api
    /\ req.pc = "quality"
    /\ ok => image.width >= MinWidth /\ image.height >= MinHeight
    /\ IF ok
       THEN req' = [req EXCEPT !.pc = "resize", !.image = image]
       ELSE req' = Respond([req EXCEPT !.image = image], 400)
    /\ UNCHANGED <<modelCache, handleName, disposed, firstOk, calls>>

\* sharp(filePath).resize(640, 640, ...).toFile(processedFilePath) settled;
\* then both models are requested
imageResized(ok) ==
    /\ UNCHANGED api
    /\ req.pc = "resize"
    /\ IF ok
       THEN /\ req' = [req EXCEPT !.pc = "models", !.onDisk = @ \cup {"processed"},
                            !.processed = sharpResize(req.image, TargetSize, TargetSize)]
            /\ calls' = GetBothModels
            /\ UNCHANGED <<modelCache, handleName, disposed, firstOk>>
       ELSE /\ req' = CatchRequest(req, "resize")
            /\ CatchRegistry
            /\ UNCHANGED calls

\* analyzeStream up to `await Promise.all([getYOLOv5Model(), getYOLOv7Model()])`
analyzeStream(hasData) ==
    /\ UNCHANGED api
    /\ req.pc = "idle"
    /\ NoCallPending
    /\ IF ~hasData
       THEN /\ req' = Respond([req EXCEPT !.kind = "stream", !.cacheAtStart = modelCache], 400)
            /\ UNCHANGED calls
       ELSE /\ req' = [req EXCEPT !.kind = "stream", !.cacheAtStart = modelCache,
                                    !.pc = "models"]
            /\ calls' = GetBothModels
    /\ UNCHANGED <<modelCache, handleName, disposed, firstOk>>

\* Promise.all of the two getModel promises settled: rejected as soon as one of
\* them rejects (the other invocation goes on), fulfilled when both resolved
modelsSettled ==
    /\ UNCHANGED api
    /\ req.pc = "models"
    /\ IF \E m \in Models : CallOf(m).pc = "rejected"
       THEN /\ req' = CatchRequest(req, "models")
            /\ CatchRegistry
            /\ calls' = SetToBag({k \in Running : k.pc # "rejected"})
       ELSE /\ \A m \in Models : CallOf(m).pc = "resolved"
            /\ req' = [req EXCEPT
                   !.handle = [m \in Models |-> CallOf(m).result.handle],
                   !.pc = IF req.kind = "image" THEN "readFile" ELSE "preprocess"]
            /\ calls' = EmptyBag
            /\ UNCHANGED <<modelCache, handleName, disposed, firstOk>>

\* a getModel invocation the request no longer awaits has settled
abandonedCallSettled ==
    \E k \in Running :
        /\ req.pc # "models"
        /\ k.pc \in {"resolved", "rejected"}
        /\ calls' = calls (-) SetToBag({k})
        /\ UNCHANGED <<modelCache, handleName, disposed, firstOk, req>>
        /\ UNCHANGED api

\* fs.readFile(processedFilePath) settled (analyzeImage only)
processedFileRead(ok) ==
    /\ UNCHANGED api
    /\ req.pc = "readFile"
    /\ IF ok
       THEN /\ req' = [req EXCEPT !.pc = "preprocess"]
            /\ UNCHANGED <<modelCache, handleName, disposed, firstOk>>
       ELSE /\ req' = CatchRequest(req, "read")
            /\ CatchRegistry
    /\ UNCHANGED calls

PredictOutcomes == {"ok", "throw", "reject"}

\* the tensors preprocessImage and processImageBuffer leave allocated when
\* they return: `image` is disposed, `normalized` is not, `batched` is returned
NormalizeTensors == {"normalized", "batched"}

\* number of prediction tensors the forward passes returned
TensorsOf(o5, o7) ==
    (IF o5 = "ok" THEN 1 ELSE 0) + (IF o7 = "ok" THEN 1 ELSE 0)

\* imageProcessor.preprocessImage / processStreamFrame settled, leaving the
\* tensors `normalized` and `batched` allocated (`image` is disposed); then
\* Promise.all([yolov5.predict(tensor), yolov7.predict(tensor)]) evaluates its
\* array: a predict that throws ends the try block before the next one runs
imagePreprocessed(ok, o5, o7, image) ==
    /\ UNCHANGED api
    /\ req.pc = "preprocess"
    /\ IF req.kind = "image" THEN image = req.processed ELSE image \in InputImages
    /\ IF ~ok
       THEN /\ o5 = "ok" /\ o7 = "ok"
            /\ req' = CatchRequest(req, "preprocess")
            /\ CatchRegistry
       ELSE LET out7 == IF o5 = "throw" THEN "notrun" ELSE o7
                r1   == [req EXCEPT
                           !.image = IF req.kind = "image" THEN @ ELSE image,
                           !.tensorShape = IF req.kind = "image"
                                           THEN preprocessImage(image)
                                           ELSE processStreamFrame(image),
                           !.normalizeTensors = NormalizeTensors,
                           !.liveTensors = @ + Cardinality(NormalizeTensors)
                                             + TensorsOf(o5, out7),
                           !.out = [m \in Models |-> IF m = "yolov5" THEN o5 ELSE out7]]
            IN  /\ o5 = "throw" => o7 = "ok"
                /\ IF o5 = "throw" \/ out7 = "throw"
                   THEN /\ req' = CatchRequest(r1, "predict")
                        /\ CatchRegistry
                   ELSE /\ req' = [r1 EXCEPT !.pc = "predict"]
                        /\ UNCHANGED <<modelCache, handleName, disposed, firstOk>>
    /\ UNCHANGED calls

\* Promise.all of the two predictions settled; then `await yolov5Prediction.data()`
predictionsSettled ==
    /\ UNCHANGED api
    /\ req.pc = "predict"
    /\ IF \E m \in Models : req.out[m] = "reject"
       THEN /\ req' = CatchRequest(req, "predict")
            /\ CatchRegistry
       ELSE /\ req' = [req EXCEPT !.pc = "data5"]
            /\ UNCHANGED <<modelCache, handleName, disposed, firstOk>>
    /\ UNCHANGED calls

\* yolov5Prediction.data() settled: class index, confidence, disease name
yolov5DataRead(ok, data) ==
    /\ UNCHANGED api
    /\ req.pc = "data5"
    /\ IF ok
       THEN /\ req' = [req EXCEPT !.pc = "data7",
                       !.data["yolov5"] = data,
                       !.classIndex["yolov5"] = IndexOfMax(data),
                       !.preds["yolov5"] =
                           Prediction(IndexOfMax(data), ElementAt(data, IndexOfMax(data)))]
            /\ UNCHANGED <<modelCache, handleName, disposed, firstOk>>
       ELSE /\ data = <<>>
            /\ req' = CatchRequest(req, "data")
            /\ CatchRegistry
    /\ UNCHANGED calls

\* yolov7Prediction.data() settled: the results object is built, analyzeImage
\* starts cleanupFiles, the response is sent
yolov7DataRead(ok, data) ==
    /\ UNCHANGED api
    /\ req.pc = "data7"
    /\ IF ok
       THEN LET p7 == Prediction(IndexOfMax(data), ElementAt(data, IndexOfMax(data)))
                p5 == req.preds["yolov5"]
                r1 == [req EXCEPT
                           !.data["yolov7"] = data,
                           !.classIndex["yolov7"] = IndexOfMax(data),
                           !.preds["yolov7"] = p7,
                           !.perModel = Results(p5, p7).perModel,
                           !.analysis = Results(p5, p7).analysis]
            IN  /\ req' = Respond(IF req.kind = "image" THEN StartCleanup(r1) ELSE r1, 200)
                /\ UNCHANGED <<modelCache, handleName, disposed, firstOk>>
       ELSE /\ data = <<>>
            /\ req' = CatchRequest(req, "data")
            /\ CatchRegistry
    /\ UNCHANGED calls

\* a cleanupFiles call that lets the failure of a deletion reach its caller
cleanupFiles_Propagate(unlink) ==
    IF \E f \in TempFiles : unlink[f] = "failed" THEN "rejected" ELSE "resolved"

\* cleanupFiles: what its promise settles with once every fs.unlink has
\* settled; each rejection is caught and logged per file, and the outer
\* try/catch logs whatever else is thrown
cleanupFiles(unlink) == "resolved"

\* one fs.unlink(filePath) of cleanupFiles settled: the file is removed, or
\* the rejection (always so for a file that does not exist) is logged
unlinkSettled(file, ok) ==
    /\ UNCHANGED api
    /\ req.cleanup.unlink[file] = "pending"
    /\ ok => file \in req.onDisk
    /\ req' = [req EXCEPT
                 !.onDisk = IF ok THEN @ \ {file} ELSE @,
                 !.cleanup.unlink[file] = IF ok THEN "deleted" ELSE "failed"]
    /\ UNCHANGED <<modelCache, handleName, disposed, firstOk, calls>>

\* `await Promise.all(deletePromises)` settled and cleanupFiles returned
cleanupFilesSettled ==
    /\ UNCHANGED api
    /\ req.cleanup.pc = "running"
    /\ \A f \in TempFiles : req.cleanup.unlink[f] # "pending"
    /\ req' = [req EXCEPT !.cleanup.pc = cleanupFiles(req.cleanup.unlink)]
    /\ UNCHANGED <<modelCache, handleName, disposed, firstOk, calls>>

\* the handler has returned and its cleanupFiles call, if any, has settled;
\* the server takes the next request
requestFinished ==
    /\ UNCHANGED api
    /\ req.pc = "done"
    /\ req.cleanup.pc # "running"
    /\ req' = IdleReq
    /\ UNCHANGED <<modelCache, handleName, disposed, firstOk, calls>>

NextReq ==
    \/ \E hasFile \in BOOLEAN : analyzeImage(hasFile)
    \/ \E ok \in BOOLEAN : uploadAccessed(ok)
    \/ \E ok \in BOOLEAN, image \in InputImages : qualityChecked(ok, image)
    \/ \E ok \in BOOLEAN : imageResized(ok)
    \/ \E hasData \in BOOLEAN : analyzeStream(hasData)
    \/ modelsSettled
    \/ abandonedCallSettled
    \/ \E ok \in BOOLEAN : processedFileRead(ok)
    \/ \E ok \in BOOLEAN, o5, o7 \in PredictOutcomes, image \in InputImages \cup {req.processed} :
           imagePreprocessed(ok, o5, o7, image)
    \/ predictionsSettled
    \/ \E ok \in BOOLEAN, data \in OutputVectors : yolov5DataRead(ok, data)
    \/ \E ok \in BOOLEAN, data \in OutputVectors : yolov7DataRead(ok, data)
    \/ \E file \in TempFiles, ok \in BOOLEAN : unlinkSettled(file, ok)
    \/ cleanupFilesSettled
    \/ requestFinished
    \/ \E accessible \in BOOLEAN : checkModelFiles(accessible)
    \/ loadSucceeded
    \/ \E ok \in BOOLEAN : warmupDone(ok)
    \/ \E kind \in LoadKinds : loadFailed(kind)
    \/ retryDelayElapsed

\* the server serving analysis requests one after the other
SpecReq == Init /\ [][NextReq]_vars

(* ---------------------------------------------------------------------- *)
(* The rest of the exported API: initializeAllModels, getModelConfig, and  *)
(* the healthCheck handler that calls getModelConfig                       *)
(* ---------------------------------------------------------------------- *)

\* initializeAllModels up to `await Promise.all(modelPromises)`: getModel is
\* called for every key of MODEL_CONFIG
initializeAllModels ==
    /\ boot.pc = "idle"
    /\ NoCallPending
    /\ calls' = SetToBag({getModelCall(IdleCall, m) : m \in Models})
    /\ boot' = [pc |-> "waiting", settled |-> [m \in Models |-> "pending"]]
    /\ UNCHANGED <<modelCache, handleName, disposed, firstOk, req>>
    /\ UNCHANGED <<warmupShape, configCopy, health>>

\* variant: the rejection of getModel is passed on
InitCatch_Rethrow(k) == IF k.pc = "resolved" THEN "model" ELSE "rejected"

\* getModel(modelName).catch(...): what the promise handed to Promise.all
\* settles with; the catch handler logs the error and returns null
InitCatch(k) == IF k.pc = "resolved" THEN "model" ELSE "null"

\* one of the getModel promises of initializeAllModels settled
initModelSettled ==
    \E k \in Running :
        /\ boot.pc = "waiting"
        /\ k.pc \in {"resolved", "rejected"}
        /\ boot.settled[k.modelName] = "pending"
        /\ boot' = [boot EXCEPT !.settled[k.modelName] = InitCatch(k)]
        /\ calls' = calls (-) SetToBag({k})
        /\ UNCHANGED <<modelCache, handleName, disposed, firstOk, req>>
        /\ UNCHANGED <<warmupShape, configCopy, health>>

\* Promise.all(modelPromises) settled: rejected as soon as one promise is
\* rejected, fulfilled when all are; then the counts are logged and
\* modelCache is returned
initializeAllModelsSettled ==
    /\ boot.pc = "waiting"
    /\ IF \E m \in Models : boot.settled[m] = "rejected"
       THEN boot' = [boot EXCEPT !.pc = "rejected"]
       ELSE /\ \A m \in Models : boot.settled[m] # "pending"
            /\ boot' = [boot EXCEPT !.pc = "resolved"]
    /\ UNCHANGED <<modelCache, handleName, disposed, firstOk, calls, req>>
    /\ UNCHANGED <<warmupShape, configCopy, health>>

\* the caller of initializeAllModels has consumed its promise
bootReturned ==
    /\ boot.pc \in {"resolved", "rejected"}
    /\ boot' = IdleBoot
    /\ UNCHANGED <<modelCache, handleName, disposed, firstOk, calls, req>>
    /\ UNCHANGED <<warmupShape, configCopy, health>>

NextInit ==
    \/ initializeAllModels
    \/ initModelSettled
    \/ initializeAllModelsSettled
    \/ bootReturned
    \/ \E accessible \in BOOLEAN : checkModelFiles(accessible)
    \/ loadSucceeded
    \/ \E ok \in BOOLEAN : warmupDone(ok)
    \/ \E kind \in LoadKinds : loadFailed(kind)
    \/ retryDelayElapsed

\* the process initializing its models, again and again
SpecInit == Init /\ [][NextInit]_vars

\* a step of the invocation of model m that does not wait for the load or
\* for the warmup inference: fs.access settles, the timeout timer or the
\* retryDelay timer fires
TimerFired(m) ==
    /\ \/ \E accessible \in BOOLEAN : checkModelFiles(accessible)
       \/ loadFailed("timeout")
       \/ retryDelayElapsed
    /\ \E k \in BagToSet(calls') :
          /\ CopiesIn(k, calls') > CopiesIn(k, calls)
          /\ k.modelName = m

\* SpecInit where file-system calls settle and timers fire; nothing is
\* assumed of tf.loadGraphModel and of the warmup inference
SpecInitLive == SpecInit /\ \A m \in Models : WF_vars(TimerFired(m))

\* `{ ...config }`: a new object with the values of config's fields; the
\* field warmupShape of the copy refers to the same array as config's
ConfigCopyOf(name) ==
    IF name \in Models
    THEN [name |-> name,
          retryAttempts |-> MODEL_CONFIG[name].retryAttempts,
          warmupShape |-> name]
    ELSE NoCopy

\* a caller invokes getModelConfig(name) and keeps the object returned
getModelConfig(name) ==
    /\ configCopy' = ConfigCopyOf(name)
    /\ UNCHANGED <<modelCache, handleName, disposed, firstOk, calls, req>>
    /\ UNCHANGED <<boot, warmupShape, health>>

\* the caller assigns a field of the object: copy.retryAttempts = value
configFieldAssigned(value) ==
    /\ configCopy # NoCopy
    /\ configCopy' = [configCopy EXCEPT !.retryAttempts = value]
    /\ UNCHANGED <<modelCache, handleName, disposed, firstOk, calls, req>>
    /\ UNCHANGED <<boot, warmupShape, health>>

\* the caller writes an element of the object's array:
\* copy.warmupShape[index] = value
configShapeWritten(index, value) ==
    /\ configCopy # NoCopy
    /\ warmupShape' = [warmupShape EXCEPT ![configCopy.warmupShape][index] = value]
    /\ UNCHANGED <<modelCache, handleName, disposed, firstOk, calls, req>>
    /\ UNCHANGED <<boot, configCopy, health>>

\* healthCheck: modelsLoaded is built from getModelConfig(name) !== null and
\* sent with status 200
healthCheck ==
    /\ health' = [reported |-> TRUE,
                  modelsLoaded |-> [m \in Models |-> ConfigCopyOf(m) # NoCopy],
                  loaded |-> [m \in Models |-> modelCache[m] # NoHandle]]
    /\ UNCHANGED <<modelCache, handleName, disposed, firstOk, calls, req>>
    /\ UNCHANGED <<boot, warmupShape, configCopy>>

\* the positions of warmupShape a caller writes: height and width
ShapeIndexes == {2, 3}

\* the values a caller writes
ShapeValues == {320}

NextApi ==
    \/ NextInit
    \/ \E name \in Names : getModelConfig(name)
    \/ \E value \in {0} : configFieldAssigned(value)
    \/ \E index \in ShapeIndexes, value \in ShapeValues : configShapeWritten(index, value)
    \/ healthCheck

\* the process and the callers of its configuration and health endpoints
SpecApi == Init /\ [][NextApi]_vars

(* ---------------------------------------------------------------------- *)
(* Properties                                                              *)
(* ---------------------------------------------------------------------- *)

\* a loadModelWithRetry is running for this invocation
InFlight(k) == k.pc \in {"check", "loading", "warmup", "delay"}

\* the configured retryAttempts of an invocation's model
AttemptsOf(k) == MODEL_CONFIG[k.modelName].retryAttempts

\* the invocations that reached their present record in this step
Arrived == {k \in BagToSet(calls') : CopiesIn(k, calls') > CopiesIn(k, calls)}

\* C1: concurrent getModel invocations of one name share a single load: no
\* two invocations of the same name each run their own loadModelWithRetry.
C1_SingleFlight ==
    \A m \in Models :
        LET loading == {k \in Running : InFlight(k) /\ k.modelName = m}
        IN  /\ Cardinality(loading) <= 1
            /\ \A k \in loading : CopiesIn(k, calls) = 1

\* C2: every handle a load produced is the cache entry of its name or has
\* been disposed (a handle still being warmed up by its loader is not yet
\* counted).
C2_OneLiveHandle ==
    \A h \in Handles :
        \/ modelCache[handleName[h]] = h
        \/ disposed[h] >= 1
        \/ \E k \in Running : k.pc = "warmup" /\ k.model = h

\* C3: when fs.access fails, the invocation rejects in that very step with
\* the file-not-found error, having called the loader zero times and set no
\* retryDelay timer, and the step leaves the cache and the set of loaded
\* handles as they were.
C3_MissingFilesFailFast ==
    [][\A k \in Arrived :
          k.access = "missing" =>
              /\ k.pc = "rejected"
              /\ k.result = FilesMissingError(k.modelName)
              /\ k.loads = 0
              /\ k.waits = 0
              /\ k.settled = 1
              /\ modelCache' = modelCache
              /\ handleName' = handleName]_vars

C3_Witness ==
    \E k \in Running : k.access = "missing" /\ k.pc = "rejected"

\* C4: an invocation calls the loader at most retryAttempts times, makes no
\* further attempt after one succeeded, and rejects with the load failure
\* only when exactly retryAttempts attempts were made and all of them failed.
C4_BoundedAttempts ==
    \A k \in Running :
        k.access = "ok" =>
            /\ k.loads <= AttemptsOf(k)
            /\ k.fails <= k.loads
            /\ k.pc \in {"loading", "warmup"} => k.fails = k.loads - 1
            /\ k.pc = "resolved" => k.model # NoHandle
            /\ k.pc = "rejected" =>
                  /\ k.result.kind = "LoadFailed"
                  /\ k.loads = AttemptsOf(k)
                  /\ k.fails = AttemptsOf(k)

C4_Witness ==
    \E a, b \in Running :
        /\ a.pc = "rejected" /\ a.result.kind = "LoadFailed"
        /\ b.pc = "warmup" /\ b.loads = 2

\* C5: an attempt that ended by timeout (as one that ended by a throw) is
\* counted as a failed attempt; if attempts remain the invocation waits and
\* then starts the next attempt, otherwise it rejects with the load failure.
C5_TimeoutIsFailedAttempt ==
    \A k \in Running :
        k.lastError # NoError =>
            /\ k.fails = k.lastError.attempt
            /\ k.lastError.attempt < AttemptsOf(k) =>
                  \/ k.pc = "delay" /\ k.attempt = k.lastError.attempt
                  \/ k.pc = "loading" /\ k.attempt = k.lastError.attempt + 1
            /\ k.lastError.attempt >= AttemptsOf(k) =>
                  /\ k.pc = "rejected"
                  /\ k.result = LoadFailedError(k.modelName, k.lastError)

C5_Witness ==
    \E k \in Running :
        /\ k.lastError = AttemptError("timeout", 1)
        /\ k.pc = "loading"
        /\ k.attempt = 2

\* C6: an invocation whose attempts all failed has rejected once, with one
\* error that names its model and carries the error of the last attempt.
C6_AggregatedFailure ==
    \A k \in Running :
        /\ k.settled <= 1
        /\ (k.pc = "rejected" /\ k.result.kind = "LoadFailed") =>
              /\ k.settled = 1
              /\ k.result.model = k.modelName
              /\ k.result.attempts = AttemptsOf(k)
              /\ k.result.cause.attempt = AttemptsOf(k)
              /\ k.result.cause.kind \in LoadKinds

C6_Witness ==
    \E k \in Running :
        /\ k.pc = "rejected"
        /\ k.result.kind = "LoadFailed"
        /\ k.result.cause = AttemptError("throw", RetryAttempts)
        /\ k.fails = RetryAttempts

\* C7: an invocation whose warmup inference failed has resolved with the
\* handle it loaded and has stored that handle in the cache; it makes no
\* further load attempt.
C7_WarmupFailureTolerated ==
    \A k \in Running :
        k.warm = "failed" =>
            /\ k.pc = "resolved"
            /\ k.model # NoHandle
            /\ k.result = HandleResult(k.model)
            /\ k.cachedAs = k.model
            /\ k.lastError = NoError

C7_Witness ==
    \E k \in Running : k.warm = "failed" /\ k.pc = "resolved"

\* what getModel(name) settles with when it returns the handle h from the cache
CacheHit(name, h) ==
    [IdleCall EXCEPT !.pc = "resolved", !.modelName = name, !.settled = 1,
                     !.result = HandleResult(h)]

\* C8: once a getModel of a name has succeeded, and until cleanupModels
\* removes the name, every getModel of that name returns that same handle
\* without a file check, a load attempt or a warmup.
C8_CachedHandleStable ==
    [][\A name \in Models :
          (getModel(name) /\ firstOk[name] # NoHandle) =>
              CacheHit(name, firstOk[name]) \in Arrived]_vars

\* the handle that cleanupModels(name) removes, NoHandle when there is none
Removed(name) == IF name \in Models THEN modelCache[name] ELSE NoHandle

\* C9: cleanupModels(name) and cleanupModels() leave the targeted names
\* without a cache entry, dispose each handle they remove once (no handle is
\* ever disposed twice), touch nothing else, and change nothing at all when
\* there is no matching entry.
C9_CleanupSafe ==
    [][/\ \A name \in Names :
            cleanupModels(name) =>
                /\ name \in Models => modelCache'[name] = NoHandle
                /\ \A m \in Models \ {name} : modelCache'[m] = modelCache[m]
                /\ \A h \in Handles :
                      /\ disposed'[h] = disposed[h] + (IF h = Removed(name) THEN 1 ELSE 0)
                      /\ disposed'[h] <= 1
                /\ Removed(name) = NoHandle => UNCHANGED vars
       /\ cleanupAllModels =>
                /\ \A m \in Models : modelCache'[m] = NoHandle
                /\ \A h \in Handles :
                      /\ disposed'[h] = disposed[h]
                            + (IF \E m \in Models : modelCache[m] = h THEN 1 ELSE 0)
                      /\ disposed'[h] <= 1
                /\ (\A m \in Models : modelCache[m] = NoHandle) => UNCHANGED vars]_vars

C9_Witness ==
    \E h \in Handles :
        /\ disposed[h] = 1
        /\ modelCache[handleName[h]] = NoHandle
        /\ \E g \in Handles : g # h /\ disposed[g] = 1

\* the other of the two models
Other(m) == CHOOSE o \in Models : o # m

\* C10: a request in which one model's forward pass failed and the other's
\* succeeded is answered with a result that holds the healthy model's
\* prediction, and that prediction is the primary result.
C10_PartialFailureTolerated ==
    \A m \in Models :
        (/\ req.pc = "done"
         /\ req.out[m] = "ok"
         /\ req.out[Other(m)] \in {"throw", "reject"}) =>
            /\ req.status = 200
            /\ req.perModel[m] # NoPrediction
            /\ req.analysis.model = DisplayName(m)

\* the request has been answered with a successful analysis
Succeeded == req.pc = "done" /\ req.status = 200

\* a per-model entry extended to the primary result it becomes when model m wins
AsPrimary(m) ==
    [disease         |-> req.perModel[m].disease,
     confidence      |-> req.perModel[m].confidence,
     recommendations |-> req.perModel[m].recommendations,
     model           |-> DisplayName(m)]

\* C11: when both models report the same numeric confidence, the primary
\* result of a successful analysis is the first-listed model's (YOLOv5's).
C11_TieGoesToFirstModel ==
    (/\ Succeeded
     /\ req.perModel["yolov5"].confidence.type = "number"
     /\ req.perModel["yolov5"].confidence = req.perModel["yolov7"].confidence) =>
        req.analysis = AsPrimary("yolov5")

\* C12: when the two numeric confidences of a successful analysis differ,
\* the primary result is the entry of the model with the greater confidence,
\* with that model's label, confidence, recommendations and name; in every
\* successful analysis the four fields of the primary result come from one
\* and the same model.
C12_GreaterConfidenceWins ==
    Succeeded =>
        /\ \E m \in Models : req.analysis = AsPrimary(m)
        /\ \A m \in Models :
              GreaterThan(req.perModel[m].confidence, req.perModel[Other(m)].confidence)
                  => req.analysis = AsPrimary(m)

C12_Witness ==
    /\ Succeeded
    /\ req.perModel["yolov5"] = Prediction(1, Number(3))
    /\ req.perModel["yolov7"] = Prediction(2, Number(1))
    /\ req.analysis.model = "YOLOv5"
    /\ req.analysis.recommendations = recommendations["Healthy"]

\* C17: the label table has the nine entries 0..8; a class index in the
\* table yields its label, every other index (9, and the -1 of a vector
\* without maximum) yields "Unknown", and a request whose two output vectors
\* were read is answered with a successful analysis whatever the indices.
C17_OutOfTableIsUnknown ==
    /\ DOMAIN labelMap = 0..8
    /\ \A m \in Models :
          req.preds[m] # NoPrediction =>
              req.preds[m].disease =
                  IF req.classIndex[m] \in 0..8
                  THEN labelMap[req.classIndex[m]] ELSE "Unknown"
    /\ (req.pc = "done" /\ \A m \in Models : req.preds[m] # NoPrediction) =>
          req.status = 200

C17_Witness ==
    /\ Succeeded
    /\ req.classIndex["yolov5"] = -1
    /\ req.classIndex["yolov7"] = 9
    /\ \A m \in Models : req.perModel[m].disease = "Unknown"

\* C18: a successful analysis holds the prediction of every model whose
\* forward pass produced one, and its primary result equals one of those
\* per-model predictions in label, confidence and recommendations.
C18_AllPredictionsAndPrimary ==
    Succeeded =>
        /\ \A m \in Models :
              req.out[m] = "ok" =>
                  /\ req.perModel[m] # NoPrediction
                  /\ req.perModel[m] = req.preds[m]
        /\ \E m \in Models :
              /\ req.perModel[m] # NoPrediction
              /\ req.analysis.disease = req.perModel[m].disease
              /\ req.analysis.confidence = req.perModel[m].confidence
              /\ req.analysis.recommendations = req.perModel[m].recommendations

C18_Witness ==
    /\ Succeeded
    /\ \A m \in Models : req.out[m] = "ok"
    /\ req.perModel["yolov5"] = Prediction(9, Number(1))
    /\ req.perModel["yolov7"] = Prediction(2, Number(2))
    /\ req.analysis = AsPrimary("yolov7")

\* C19: every confidence of a per-model result and of the primary result
\* is a number between 0 and 1 (0 and 2 halves).
C19_ConfidenceInUnitInterval ==
    LET InUnitInterval(c) == c.type = "number" /\ 0 <= c.value /\ c.value <= 2
    IN  Succeeded =>
            /\ \A m \in Models : InUnitInterval(req.perModel[m].confidence)
            /\ InUnitInterval(req.analysis.confidence)

\* C13: a returned analyzeImage that had registered its temporary files has
\* called cleanupFiles on them exactly once.
C13_FilesReleasedOnEveryExit ==
    (req.pc = "done" /\ req.registered) => req.cleanups = 1

\* C14: when a request has been answered, the tensors it allocated (the
\* input tensor and the prediction tensors) have all been released.
C14_TensorsReleased ==
    req.pc = "done" => req.liveTensors = 0

\* a step of the cleanupFiles call of the request
CleanupStep ==
    \/ \E file \in TempFiles, ok \in BOOLEAN : unlinkSettled(file, ok)
    \/ cleanupFilesSettled

\* C15: a cleanupFiles call never rejects, whichever deletions failed, and
\* no step of it changes the response already produced: the status, the
\* per-model entries, the primary result and the number of responses sent
\* are those of a request whose deletions all succeed.
C15_CleanupFailureOnlyLogged ==
    [][/\ req'.cleanup.pc # "rejected"
       /\ CleanupStep =>
              /\ req'.pc = req.pc
              /\ req'.status = req.status
              /\ req'.perModel = req.perModel
              /\ req'.analysis = req.analysis
              /\ req'.responses = req.responses]_vars

C15_Witness ==
    /\ req.cleanup.pc = "resolved"
    /\ req.cleanup.unlink["upload"] = "deleted"
    /\ req.cleanup.unlink["processed"] = "failed"
    /\ req.status = 500
    /\ req.responses = 1

\* the failures of one request's own image and inference work: resizing,
\* reading and decoding the image, the forward passes, reading their output
RequestErrors == {"resize", "read", "preprocess", "predict", "data"}

C21_RecommendationsPerLabel ==
    /\ {labelMap[i] : i \in DOMAIN labelMap} = DOMAIN recommendations
    /\ Cardinality(DOMAIN recommendations) = 9
    /\ \A a \in DOMAIN recommendations :
          /\ recommendations[a] # <<>>
          /\ recommendations[a] # FallbackRecommendations
          /\ \A b \in DOMAIN recommendations \ {a} : recommendations[a] # recommendations[b]
    /\ \A m \in Models :
          req.preds[m] # NoPrediction =>
              req.preds[m].recommendations =
                  IF req.preds[m].disease \in DOMAIN recommendations
                  THEN recommendations[req.preds[m].disease]
                  ELSE FallbackRecommendations

C21_Witness ==
    /\ Succeeded
    /\ req.perModel["yolov5"].disease = "Healthy"
    /\ req.perModel["yolov5"].recommendations = recommendations["Healthy"]
    /\ req.perModel["yolov7"].disease = "Unknown"
    /\ req.perModel["yolov7"].recommendations = FallbackRecommendations

\* C23: the class index of a model is the index of the largest value of its
\* output vector, the lowest such index when the largest value occurs more
\* than once, and its confidence is the value at that index.
C23_ArgMaxAndItsValue ==
    \A m \in Models :
        (req.preds[m] # NoPrediction /\ req.data[m] # <<>>) =>
            LET data == req.data[m]
                at   == req.classIndex[m] + 1
            IN  /\ at \in DOMAIN data
                /\ \A j \in DOMAIN data : data[j] <= data[at]
                /\ \A j \in DOMAIN data : j < at => data[j] < data[at]
                /\ req.preds[m].confidence = Number(data[at])

C23_Witness ==
    /\ Succeeded
    /\ req.data["yolov5"] = <<1, 1>>
    /\ req.classIndex["yolov5"] = 0
    /\ req.data["yolov7"] = Spike(10, 9, 3)
    /\ req.classIndex["yolov7"] = 9
    /\ req.perModel["yolov7"].confidence = Number(3)

\* C25: once the normalization has returned, the only tensor it created
\* that is still allocated is the batched tensor it returned; after a
\* normalization that threw, none is.
C25_IntermediatesReleased ==
    /\ req.tensorShape # <<>> => req.normalizeTensors = {"batched"}
    /\ req.tensorShape = <<>> => req.normalizeTensors = {}

\* C30: a handler that has returned has sent exactly one response, and a
\* handler that is still running has sent none.
C30_ExactlyOneResponse ==
    req.responses = IF req.pc = "done" THEN 1 ELSE 0

C30_Witness ==
    /\ req.pc = "done"
    /\ req.kind = "image"
    /\ req.status = 404
    /\ req.responses = 1

\* C24: an invocation has set one retryDelay timer per failed attempt that
\* another attempt follows, and none after its last attempt: while attempt
\* n runs it has waited n-1 times, and when it rejects after retryAttempts
\* failed attempts it has waited retryAttempts-1 times.
C24_OneWaitBetweenAttempts ==
    \A k \in Running :
        k.access = "ok" =>
            /\ k.pc \in {"loading", "warmup"} => k.waits = k.loads - 1
            /\ k.pc = "delay" => k.waits = k.loads /\ k.loads < AttemptsOf(k)
            /\ k.pc = "rejected" =>
                  /\ k.fails = AttemptsOf(k)
                  /\ k.waits = AttemptsOf(k) - 1

C24_Witness ==
    \E k \in Running :
        /\ k.pc = "rejected"
        /\ k.fails = RetryAttempts
        /\ k.waits = RetryAttempts - 1
        /\ k.lastError.kind = "timeout"

\* what getModel(name) starts when the name has no cache entry: the file
\* check of a new load sequence, all counters at zero
FreshLoad(name) == [IdleCall EXCEPT !.pc = "check", !.modelName = name]

\* C28: the step in which an invocation rejects leaves the cache as it was
\* and the invocation has written no cache entry; and every getModel of a
\* name without cache entry, whatever invocations of that name failed
\* before, starts a new load sequence at the file check with its attempt
\* counter at zero.
C28_FailureNotCached ==
    [][/\ \A k \in Arrived :
             k.pc = "rejected" =>
                 /\ modelCache' = modelCache
                 /\ k.cachedAs = NoHandle
                 /\ k.model = NoHandle
       /\ \A name \in Models :
             (getModel(name) /\ modelCache[name] = NoHandle) =>
                 FreshLoad(name) \in Arrived]_vars

C28_Witness ==
    \E a, b \in Running :
        /\ a.pc = "rejected"
        /\ a.result.kind = "LoadFailed"
        /\ b.modelName = a.modelName
        /\ b.pc = "check"
        /\ b = FreshLoad(a.modelName)
        /\ modelCache[a.modelName] = NoHandle

\* C22: initializeAllModels never rejects; when it has resolved, each model
\* has either been loaded or has failed on its own, and a model that was
\* loaded is in the cache whatever became of the other model.
C22_ModelsLoadIndependently ==
    /\ boot.pc # "rejected"
    /\ \A m \in Models :
          /\ boot.settled[m] # "rejected"
          /\ boot.settled[m] = "model" => modelCache[m] # NoHandle
          /\ boot.pc = "resolved" => boot.settled[m] \in {"model", "null"}

C22_Witness ==
    /\ boot.pc = "resolved"
    /\ boot.settled["yolov5"] = "null"
    /\ boot.settled["yolov7"] = "model"
    /\ modelCache["yolov5"] = NoHandle
    /\ modelCache["yolov7"] # NoHandle

\* C26: the warmup shape of every model stays the configured one, and
\* every warmup inference runs with it, whatever the callers of
\* getModelConfig do with the objects they receive.
C26_ConfigImmutable ==
    /\ \A m \in Models : warmupShape[m] = WarmupShape
    /\ \A k \in Running : k.pc = "warmup" => k.shape = WarmupShape

\* C27: the modelsLoaded flags of a healthCheck response say, for each
\* model, whether it was in the cache when the response was built.
C27_HealthReportsCache ==
    health.reported => \A m \in Models : health.modelsLoaded[m] = health.loaded[m]

\* the getModel invocation of model m is running loadModelWithRetry
PendingCall(m) == \E k \in Running : k.modelName = m /\ InFlight(k)

\* C29: every getModel invocation that runs a load eventually resolves or
\* rejects, provided file-system calls settle and timers fire.
C29_EveryCallSettles ==
    \A m \in Models : PendingCall(m) ~> ~PendingCall(m)


====
